---- MODULE Spec2Model ----
(***************************************************************************)
(* Model of server/models/Torrent.js: the Torrent class, which turns a raw *)
(* rTorrent snapshot (clientData) into the normalised record torrentData.  *)
(*                                                                         *)
(* JavaScript values are tagged records [t, v]:                            *)
(*   undefined          [t |-> "undefined", v |-> <<>>]                    *)
(*   a string           [t |-> "string",    v |-> <<"a", "b">>]  (chars)   *)
(*   an array           [t |-> "array",     v |-> <<...>>]  of strings;    *)
(*                      requestedData is an array of key names             *)
(*   a number           [t |-> "number",    v |-> <<n, d>>]  the rational  *)
(*                      n/d (d > 0); <<0,0>> is NaN, <<1,0>> is Infinity   *)
(*   an object          [t |-> "object",    v |-> [field |-> value]]       *)
(*   a thrown exception [t |-> "throw",     v |-> <<>>]                    *)
(* Numbers are exact rationals: the rounding error of IEEE doubles is not  *)
(* modelled.                                                               *)
(***************************************************************************)
EXTENDS Integers, Sequences, FiniteSets, TLC

VARIABLES
    exists,        \* TRUE once `new Torrent(...)` has returned an object
    torrentData,   \* this.torrentData (Undef until a build commits)
    lastUpdated,   \* this.lastUpdated (Undef until a build stamps it)
    pc,            \* "idle", or "notify": inside getClientData, at the notifier call
    op,            \* the running / last operation: "none", "ctor", "update"
    args,          \* its arguments [cd, opts]
    pending,       \* the local torrentData of getClientData while at the notifier
    outcome,       \* "none", "running", "ok" (returned) or "throw" (raised)
    warned,        \* console.warn was called by the running / last build
    notifierArgs,  \* <<previous, new>> handed to the notifier by this build, or <<>>
    recordStamp,   \* ghost: the lastUpdated stamp of the build that committed torrentData
    now,           \* the wall clock read by Date.now()
    fnIn,          \* input of the deriver under test (pure-function specifications)
    fnOut          \* its result

vars == <<exists, torrentData, lastUpdated, pc, op, args, pending, outcome,
          warned, notifierArgs, recordStamp, now, fnIn, fnOut>>

objVars == <<exists, torrentData, lastUpdated, pc, op, args, pending, outcome,
             warned, notifierArgs, recordStamp, now>>

--------------------------------------------------------------------------
(* JavaScript values *)

Undef == [t |-> "undefined", v |-> <<>>]

Throw == [t |-> "throw", v |-> <<>>]

Str(s) == [t |-> "string", v |-> s]

Arr(l) == [t |-> "array", v |-> l]

Num(n, d) == [t |-> "number", v |-> <<n, d>>]

Obj(r) == [t |-> "object", v |-> r]

NaN == Num(0, 0)

Infinity == Num(1, 0)

IsStr(x) == x.t = "string"

\* property read obj[key] on an object: undefined when the key is absent
Get(obj, key) == IF key \in DOMAIN obj.v THEN obj.v[key] ELSE Undef

\* ToBoolean for the values of the model
Truthy(x) ==
    CASE x.t = "undefined" -> FALSE
      [] x.t = "string"    -> x.v # <<>>
      [] x.t = "number"    -> x.v[1] # 0
      [] OTHER             -> TRUE

--------------------------------------------------------------------------
(* Strings: sequences of one-character strings *)

\* the characters of the model, in UTF-16 code unit order
Alphabet == <<" ", "!", "%", ",", ".", "/", "0", "1", "2", "3", "4", "5",
              "6", "7", "8", "9", ":", "@", "A", "C", "a", "b", "c", "d",
              "e", "h", "p", "t", "x">>

CharCode(c) == CHOOSE i \in 1..Len(Alphabet) : Alphabet[i] = c

Digits == <<"0", "1", "2", "3", "4", "5", "6", "7", "8", "9">>

IsDigit(c) == \E i \in 1..10 : Digits[i] = c

DigitVal(c) == (CHOOSE i \in 1..10 : Digits[i] = c) - 1

\* s has pat at (1-based) position i
MatchAt(s, pat, i) ==
    /\ i + Len(pat) - 1 <= Len(s)
    /\ \A k \in 1..Len(pat) : s[i + k - 1] = pat[k]

\* String.prototype.indexOf, 0-based, -1 when absent
IndexOf(s, pat) ==
    IF \E i \in 1..(Len(s) + 1) : MatchAt(s, pat, i)
    THEN (CHOOSE i \in 1..(Len(s) + 1) :
              /\ MatchAt(s, pat, i)
              /\ \A j \in 1..(i - 1) : ~MatchAt(s, pat, j)) - 1
    ELSE -1

\* String.prototype.substr(start, length) for start >= 0: a length <= 0 gives ""
Substr(s, start, length) ==
    LET from == IF start > Len(s) THEN Len(s) ELSE start
        n    == IF length < 0 THEN 0
                ELSE IF length > Len(s) - from THEN Len(s) - from
                ELSE length
    IN  SubSeq(s, from + 1, from + n)

\* String.prototype.split(delim) for a non-empty delim
RECURSIVE Split(_, _)
Split(s, delim) ==
    LET i == IndexOf(s, delim)
    IN  IF i = -1 THEN <<s>>
        ELSE <<SubSeq(s, 1, i)>> \o Split(SubSeq(s, i + Len(delim) + 1, Len(s)), delim)

\* Array.prototype.join(sep) over strings
RECURSIVE Join(_, _)
Join(parts, sep) ==
    IF parts = <<>> THEN <<>>
    ELSE IF Len(parts) = 1 THEN parts[1]
    ELSE parts[1] \o sep \o Join(Tail(parts), sep)

\* Array.prototype.slice(-n) for n > 0: the last n elements (all when fewer)
SliceLast(l, n) ==
    IF Len(l) <= n THEN l ELSE SubSeq(l, Len(l) - n + 1, Len(l))

\* String.prototype.trim (only the space character is modelled as whitespace)
RECURSIVE TrimLeft(_)
TrimLeft(s) == IF s # <<>> /\ Head(s) = " " THEN TrimLeft(Tail(s)) ELSE s

RECURSIVE TrimRight(_)
TrimRight(s) ==
    IF s # <<>> /\ s[Len(s)] = " " THEN TrimRight(SubSeq(s, 1, Len(s) - 1)) ELSE s

Trim(s) == TrimRight(TrimLeft(s))

\* a < b in the code unit order Array.prototype.sort uses by default
RECURSIVE StrLess(_, _)
StrLess(a, b) ==
    IF b = <<>> THEN FALSE
    ELSE IF a = <<>> THEN TRUE
    ELSE IF Head(a) = Head(b) THEN StrLess(Tail(a), Tail(b))
    ELSE CharCode(Head(a)) < CharCode(Head(b))

\* insertion of one string into a sorted list, after its equals (stable)
RECURSIVE Insert(_, _)
Insert(x, l) ==
    IF l = <<>> THEN <<x>>
    ELSE IF StrLess(x, Head(l)) THEN <<x>> \o l
    ELSE <<Head(l)>> \o Insert(x, Tail(l))

\* Array.prototype.sort() with the default comparison
RECURSIVE Sort(_)
Sort(l) == IF l = <<>> THEN <<>> ELSE Insert(l[Len(l)], Sort(SubSeq(l, 1, Len(l) - 1)))

\* the escapes decodeURIComponent knows in the model's alphabet
HexPairs == { <<"2", "C">>, <<"4", "1">>, <<"2", "5">> }

HexChar(pair) ==
    CASE pair = <<"2", "C">> -> ","
      [] pair = <<"4", "1">> -> "A"
      [] OTHER               -> "%"

\* decodeURIComponent: a string, or Throw (URIError) on a malformed escape
RECURSIVE DecodeChars(_)
DecodeChars(s) ==
    IF s = <<>> THEN <<>>
    ELSE IF Head(s) # "%" THEN <<Head(s)>> \o DecodeChars(Tail(s))
    ELSE IF Len(s) >= 3 /\ SubSeq(s, 2, 3) \in HexPairs
         THEN <<HexChar(SubSeq(s, 2, 3))>> \o DecodeChars(SubSeq(s, 4, Len(s)))
    ELSE <<"!bad">>

decodeURIComponent(s) ==
    LET d == DecodeChars(s)
    IN  IF \E i \in 1..Len(d) : d[i] = "!bad" THEN Throw ELSE Str(d)

\* the decimal value of a string of digits
RECURSIVE DigitsVal(_)
DigitsVal(s) ==
    IF s = <<>> THEN 0 ELSE 10 * DigitsVal(SubSeq(s, 1, Len(s) - 1)) + DigitVal(s[Len(s)])

\* ToNumber: the implicit conversion of an operand of / - > (NaN, or n/1)
ToNumber(x) ==
    CASE x.t = "number" -> x
      [] x.t = "string" /\ (\A i \in 1..Len(x.v) : IsDigit(x.v[i])) -> Num(DigitsVal(x.v), 1)
      [] OTHER -> NaN

IsNaN(x) == x.v = <<0, 0>>

--------------------------------------------------------------------------
(* Collaborators that live outside server/models/Torrent.js *)

\* shared/constants/torrentStatusMap: one distinct label per status
torrentStatusMap ==
    [checking    |-> Str(<<"c", "h", "e", "c", "k", "i", "n", "g">>),
     seeding     |-> Str(<<"s", "e", "e", "d", "i", "n", "g">>),
     paused      |-> Str(<<"p", "a", "u", "s", "e", "d">>),
     complete    |-> Str(<<"c", "o", "m", "p", "l", "e", "t", "e">>),
     downloading |-> Str(<<"d", "o", "w", "n", "l", "o", "a", "d", "i", "n", "g">>),
     stopped     |-> Str(<<"s", "t", "o", "p", "p", "e", "d">>),
     error       |-> Str(<<"e", "r", "r", "o", "r">>),
     inactive    |-> Str(<<"i", "n", "a", "c", "t", "i", "v", "e">>),
     active      |-> Str(<<"a", "c", "t", "i", "v", "e">>)]

\* shared/util/stringUtil.capitalize on the key names of the model
capitalize(key) ==
    CASE key = "hash"            -> "Hash"
      [] key = "added"           -> "Added"
      [] key = "bytesDone"       -> "BytesDone"
      [] key = "downloadRate"    -> "DownloadRate"
      [] key = "downloadTotal"   -> "DownloadTotal"
      [] key = "eta"             -> "Eta"
      [] key = "name"            -> "Name"
      [] key = "percentComplete" -> "PercentComplete"
      [] key = "ratio"           -> "Ratio"
      [] key = "sizeBytes"       -> "SizeBytes"
      [] key = "status"          -> "Status"
      [] key = "totalPeers"      -> "TotalPeers"
      [] key = "totalSeeds"      -> "TotalSeeds"
      [] key = "uploadTotal"     -> "UploadTotal"
      [] key = "uploadRate"      -> "UploadRate"
      [] key = "priority"        -> "Priority"
      [] key = "trackers"        -> "Trackers"
      [] key = "creationDate"    -> "CreationDate"
      [] key = "freeDiskSpace"   -> "FreeDiskSpace"
      [] key = "connectedPeers"  -> "ConnectedPeers"
      [] key = "connectedSeeds"  -> "ConnectedSeeds"
      [] key = "message"         -> "Message"
      [] key = "basePath"        -> "BasePath"
      [] key = "ignoreScheduler" -> "IgnoreScheduler"
      [] key = "comment"         -> "Comment"
      [] key = "isPrivate"       -> "IsPrivate"
      [] key = "directory"       -> "Directory"
      [] key = "filename"        -> "Filename"
      [] key = "isMultiFile"     -> "IsMultiFile"
      [] key = "tags"            -> "Tags"
      [] key = "peerCount"       -> "PeerCount"
      [] key = "clientData"      -> "ClientData"
      [] key = "foo"             -> "Foo"
      [] OTHER                   -> key

\* shared/util/regEx.domainName.exec(tracker)[1]: the hostname after "://",
\* up to the next "/"; undefined when the entry has no "://" or no hostname
domainNameExec(tracker) ==
    LET i    == IndexOf(tracker, <<":", "/", "/">>)
        rest == SubSeq(tracker, i + 4, Len(tracker))
        j    == IndexOf(rest, <<"/">>)
        host == IF j = -1 THEN rest ELSE SubSeq(rest, 1, j)
    IN  IF i = -1 \/ host = <<>> THEN Undef ELSE Str(host)

\* shared/util/formatUtil.secondsToDuration: an opaque duration of n/d seconds
secondsToDuration(cumSeconds) == [t |-> "duration", v |-> cumSeconds.v]

--------------------------------------------------------------------------
(* The derivers of class Torrent *)

DEFAULT_DATA_KEYS ==
    <<"hash", "added", "bytesDone", "downloadRate", "downloadTotal", "eta",
      "name", "percentComplete", "ratio", "sizeBytes", "status", "totalPeers",
      "totalSeeds", "uploadTotal", "uploadRate", "priority", "trackers",
      "creationDate", "freeDiskSpace", "connectedPeers", "connectedSeeds",
      "message", "basePath", "ignoreScheduler", "comment", "isPrivate",
      "directory", "filename", "isMultiFile", "tags">>

\* the reserved delimiter of clientResponseUtil
Delimiter == <<"@", "!", "@">>

\* getPeerCount(string): string.substr(0, string.indexOf('@!@'));
\* a TypeError when the argument has no indexOf (it is not a string)
getPeerCount(string) ==
    IF ~IsStr(string) THEN Throw
    ELSE LET markerPosition == IndexOf(string.v, Delimiter)
         IN  Str(Substr(string.v, 0, markerPosition))

\* a - b on numbers
NumSub(a, b) ==
    IF IsNaN(a) \/ IsNaN(b) THEN NaN ELSE Num(a.v[1] * b.v[2] - b.v[1] * a.v[2], a.v[2] * b.v[2])

\* a / b on non-negative-denominator numbers, b >= 0
NumDiv(a, b) ==
    IF IsNaN(a) \/ IsNaN(b) THEN NaN
    ELSE IF b.v[1] = 0 THEN (IF a.v[1] = 0 THEN NaN
                             ELSE IF a.v[1] > 0 THEN Infinity ELSE Num(-1, 0))
    ELSE Num(a.v[1] * b.v[2], a.v[2] * b.v[1])

\* a > 0 and a < c for an integer c (false for NaN)
NumGtInt(a, c) ==
    /\ ~IsNaN(a)
    /\ IF a.v[2] = 0 THEN a.v[1] > 0 ELSE a.v[1] > c * a.v[2]

NumLtInt(a, c) ==
    /\ ~IsNaN(a)
    /\ IF a.v[2] = 0 THEN a.v[1] < 0 ELSE a.v[1] < c * a.v[2]

\* Number(x.toFixed(digits)) for a finite x >= 0: the nearest multiple of
\* 10^-digits, the larger one on a tie
ToFixed(x, digits) ==
    LET scale == IF digits = 2 THEN 100 ELSE 10
    IN  Num((2 * x.v[1] * scale + x.v[2]) \div (2 * x.v[2]), scale)

getEta(clientData) ==
    LET rate      == ToNumber(Get(clientData, "downloadRate"))
        completed == ToNumber(Get(clientData, "bytesDone"))
        total     == ToNumber(Get(clientData, "sizeBytes"))
    IN  IF NumGtInt(rate, 0)
        THEN secondsToDuration(NumDiv(NumSub(total, completed), rate))
        ELSE Str(<<"I", "n", "f", "i", "n", "i", "t", "y">>)

\* getPercentComplete rounding to one decimal place in both tiers
getPercentCompleteOneDigit(clientData) ==
    LET ratio == NumDiv(ToNumber(Get(clientData, "bytesDone")),
                        ToNumber(Get(clientData, "sizeBytes")))
        percentComplete ==
            IF IsNaN(ratio) \/ ratio.v[2] = 0 THEN ratio
            ELSE Num(ratio.v[1] * 100, ratio.v[2])
    IN  IF NumGtInt(percentComplete, 0) /\ NumLtInt(percentComplete, 100)
        THEN ToFixed(percentComplete, 1)
        ELSE percentComplete

getPercentComplete(clientData) ==
    LET ratio == NumDiv(ToNumber(Get(clientData, "bytesDone")),
                        ToNumber(Get(clientData, "sizeBytes")))
        percentComplete ==
            IF IsNaN(ratio) \/ ratio.v[2] = 0 THEN ratio
            ELSE Num(ratio.v[1] * 100, ratio.v[2])
    IN  IF NumGtInt(percentComplete, 0) /\ NumLtInt(percentComplete, 10)
        THEN ToFixed(percentComplete, 2)
        ELSE IF NumGtInt(percentComplete, 10) /\ NumLtInt(percentComplete, 100)
        THEN ToFixed(percentComplete, 1)
        ELSE percentComplete

One == Str(<<"1">>)

Zero == Str(<<"0">>)

\* PrimaryStatus with the two tags of a complete, closed torrent swapped
PrimaryStatusSwapped(isHashChecking, isComplete, isOpen, state) ==
    IF isHashChecking = One THEN <<torrentStatusMap.checking>>
    ELSE IF isComplete = One /\ isOpen = One /\ state = One
         THEN <<torrentStatusMap.complete, torrentStatusMap.seeding>>
    ELSE IF isComplete = One /\ isOpen = One /\ state = Zero
         THEN <<torrentStatusMap.paused>>
    ELSE IF isComplete = One /\ isOpen = Zero
         THEN <<torrentStatusMap.complete, torrentStatusMap.stopped>>
    ELSE IF isComplete = Zero /\ isOpen = One /\ state = One
         THEN <<torrentStatusMap.downloading>>
    ELSE IF isComplete = Zero /\ isOpen = One /\ state = Zero
         THEN <<torrentStatusMap.paused>>
    ELSE IF isComplete = Zero /\ isOpen = Zero
         THEN <<torrentStatusMap.stopped>>
    ELSE <<>>

\* the first-match primary classification of getStatus
PrimaryStatus(isHashChecking, isComplete, isOpen, state) ==
    IF isHashChecking = One THEN <<torrentStatusMap.checking>>
    ELSE IF isComplete = One /\ isOpen = One /\ state = One
         THEN <<torrentStatusMap.complete, torrentStatusMap.seeding>>
    ELSE IF isComplete = One /\ isOpen = One /\ state = Zero
         THEN <<torrentStatusMap.paused>>
    ELSE IF isComplete = One /\ isOpen = Zero
         THEN <<torrentStatusMap.stopped, torrentStatusMap.complete>>
    ELSE IF isComplete = Zero /\ isOpen = One /\ state = One
         THEN <<torrentStatusMap.downloading>>
    ELSE IF isComplete = Zero /\ isOpen = One /\ state = Zero
         THEN <<torrentStatusMap.paused>>
    ELSE IF isComplete = Zero /\ isOpen = Zero
         THEN <<torrentStatusMap.stopped>>
    ELSE <<>>

\* message.length is a TypeError when message is undefined
getStatus(clientData) ==
    LET uploadRate   == Get(clientData, "uploadRate")
        downloadRate == Get(clientData, "downloadRate")
        message      == Get(clientData, "message")
        primary      == PrimaryStatus(Get(clientData, "isHashChecking"),
                                      Get(clientData, "isComplete"),
                                      Get(clientData, "isOpen"),
                                      Get(clientData, "state"))
        withError    == IF Len(message.v) # 0
                        THEN Append(primary, torrentStatusMap.error)
                        ELSE primary
    IN  IF message = Undef THEN Throw
        ELSE IF uploadRate = Zero /\ downloadRate = Zero
        THEN Arr(Append(withError, torrentStatusMap.inactive))
        ELSE Arr(Append(withError, torrentStatusMap.active))

\* tags.split is a TypeError when tags is undefined; decodeURIComponent
\* raises a URIError on a malformed escape
getTags(clientData) ==
    LET tags    == Get(clientData, "tags")
        sorted  == Sort(Split(tags.v, <<",">>))
        decoded == [i \in 1..Len(sorted) |-> decodeURIComponent(sorted[i])]
    IN  IF tags = Undef THEN Throw
        ELSE IF tags = Str(<<>>) THEN Arr(<<>>)
        ELSE IF \E i \in 1..Len(decoded) : decoded[i] = Throw THEN Throw
        ELSE Arr(decoded)

getTotalPeers(clientData) == getPeerCount(Get(clientData, "totalPeers"))

getTotalSeeds(clientData) == getPeerCount(Get(clientData, "totalSeeds"))

\* TrackerDomain with the length test < 3 in place of <= 3
TrackerDomainStrict(domain) ==
    LET domainSubsets == Split(domain, <<".">>)
        desiredSubsets ==
            IF Len(domainSubsets) > 2
               /\ Len(domainSubsets[Len(domainSubsets) - 2 + 1]) < 3
            THEN 3 ELSE 2
    IN  Join(SliceLast(domainSubsets, desiredSubsets), <<".">>)

\* the domain kept for one matched hostname (lines 220-231)
TrackerDomain(domain) ==
    LET domainSubsets == Split(domain, <<".">>)
        desiredSubsets ==
            IF Len(domainSubsets) > 2
               /\ Len(domainSubsets[Len(domainSubsets) - 2 + 1]) <= 3
            THEN 3 ELSE 2
    IN  Join(SliceLast(domainSubsets, desiredSubsets), <<".">>)

RECURSIVE TrackerDomains(_)
TrackerDomains(trackers) ==
    IF trackers = <<>> THEN <<>>
    ELSE LET domain == domainNameExec(Head(trackers))
         IN  IF Truthy(domain)
             THEN <<Str(TrackerDomain(domain.v))>> \o TrackerDomains(Tail(trackers))
             ELSE TrackerDomains(Tail(trackers))

\* trackers.split is a TypeError when trackers is undefined
getTrackers(clientData) ==
    LET trackers == Get(clientData, "trackers")
    IN  IF trackers = Undef THEN Throw
        ELSE Arr(TrackerDomains(Split(trackers.v, Delimiter)))

cleanUpDate(dirtyDate) ==
    IF ~Truthy(dirtyDate) THEN Str(<<>>)
    ELSE LET date == Trim(dirtyDate.v)
         IN  IF date = <<"0">> THEN Str(<<>>) ELSE Str(date)

getAdded(clientData) == cleanUpDate(Get(clientData, "added"))

getCreationDate(clientData) == cleanUpDate(Get(clientData, "creationDate"))

--------------------------------------------------------------------------
(* getClientData: field selection and the record builder *)

\* the methods of a Torrent instance whose name starts with "get"
GetMethods ==
    {"getClientData", "getPeerCount", "getEta", "getPercentComplete",
     "getStatus", "getTags", "getTotalPeers", "getTotalSeeds", "getTrackers",
     "getAdded", "getCreationDate"}

\* this[fnName](clientData) for a method of GetMethods. getClientData is
\* entered with opts undefined and raises on opts.requestedData.
CallMethod(fnName, clientData) ==
    CASE fnName = "getPeerCount"       -> getPeerCount(clientData)
      [] fnName = "getEta"             -> getEta(clientData)
      [] fnName = "getPercentComplete" -> getPercentComplete(clientData)
      [] fnName = "getStatus"          -> getStatus(clientData)
      [] fnName = "getTags"            -> getTags(clientData)
      [] fnName = "getTotalPeers"      -> getTotalPeers(clientData)
      [] fnName = "getTotalSeeds"      -> getTotalSeeds(clientData)
      [] fnName = "getTrackers"        -> getTrackers(clientData)
      [] fnName = "getAdded"           -> getAdded(clientData)
      [] fnName = "getCreationDate"    -> getCreationDate(clientData)
      [] OTHER                         -> Throw

\* the body of the forEach callback: the value stored under key, or Throw.
\* Every branch starts by reading a property of clientData, a TypeError
\* when clientData is undefined.
KeyData(clientData, key) ==
    LET fnName == "get" \o capitalize(key)
    IN  IF clientData = Undef THEN Throw
        ELSE IF fnName \in GetMethods THEN CallMethod(fnName, clientData)
        ELSE Get(clientData, key)

\* lines 82-90: the keys to process (reading opts.requestedData raises when
\* opts is undefined)
KeysToProcess(opts) ==
    LET requestedData == Get(opts, "requestedData")
    IN  IF Truthy(requestedData) /\ requestedData.t = "array"
        THEN requestedData.v
        ELSE DEFAULT_DATA_KEYS

\* line 88-89: console.warn is called
Warns(opts) ==
    LET requestedData == Get(opts, "requestedData")
    IN  ~(Truthy(requestedData) /\ requestedData.t = "array") /\ Truthy(requestedData)

\* lines 82-106: the local torrentData once the forEach has run, or Throw
BuildFields(clientData, opts) ==
    IF opts = Undef THEN Throw
    ELSE LET keysToProcess == KeysToProcess(opts)
             keySet == {keysToProcess[i] : i \in 1..Len(keysToProcess)}
         IN  IF \E k \in keySet : KeyData(clientData, k) = Throw
             THEN Throw
             ELSE Obj([k \in keySet |-> KeyData(clientData, k)])

--------------------------------------------------------------------------
(* The accessors, read in the current state *)

\* get data(): Object.assign({}, this.torrentData), {} when it is undefined
data == IF torrentData = Undef THEN Obj(<<>>) ELSE torrentData

\* this.torrentData.<key> raises when this.torrentData is undefined
basePath == IF torrentData = Undef THEN Throw ELSE Get(torrentData, "basePath")

ListAccessor(key) ==
    IF torrentData = Undef THEN Throw
    ELSE IF Truthy(Get(torrentData, key)) THEN Get(torrentData, key)
    ELSE Arr(<<>>)

status == ListAccessor("status")

tags == ListAccessor("tags")

trackers == ListAccessor("trackers")

--------------------------------------------------------------------------
(* Bounds and the inputs of the object's operations *)

\* the clock and opts.currentTime range over 1..MaxTime
MaxTime == 2

\* at most this many deriver inputs are missing from a snapshot
MaxMissing == 1

\* requestedData lists have at most this many entries
MaxRequested == 2

\* a well-formed snapshot of a downloading torrent
BaseSnapshot ==
    Obj([hash            |-> Str(<<"A">>),
         name            |-> Str(<<"a">>),
         isHashChecking  |-> Zero,
         isComplete      |-> Zero,
         isOpen          |-> One,
         state           |-> One,
         uploadRate      |-> Zero,
         downloadRate    |-> Str(<<"5">>),
         downloadTotal   |-> Str(<<"5">>),
         uploadTotal     |-> Zero,
         bytesDone       |-> Str(<<"5">>),
         sizeBytes       |-> Str(<<"1", "0", "0">>),
         ratio           |-> Zero,
         priority        |-> Str(<<"2">>),
         message         |-> Str(<<>>),
         tags            |-> Str(<<"b", ",", "a">>),
         trackers        |-> Str(<<"h", "t", "t", "p", ":", "/", "/", "t", ".", "a", "b",
                                   ".", "c", "d", "/", "x", "@", "!", "@", "x">>),
         totalPeers      |-> Str(<<"2", "@", "!", "@", "x">>),
         totalSeeds      |-> Str(<<"1", "@", "!", "@", "x">>),
         added           |-> Str(<<"5", " ">>),
         creationDate    |-> Zero,
         freeDiskSpace   |-> Str(<<"9">>),
         connectedPeers  |-> One,
         connectedSeeds  |-> One,
         basePath        |-> Str(<<"/", "d">>),
         ignoreScheduler |-> Zero,
         comment         |-> Str(<<>>),
         isPrivate       |-> Zero,
         directory       |-> Str(<<"/", "d">>),
         filename        |-> Str(<<"a">>),
         isMultiFile     |-> Zero])

\* the raw fields the derivers read
DeriverFields ==
    {"message", "tags", "trackers", "totalPeers", "totalSeeds", "added",
     "creationDate", "bytesDone", "sizeBytes", "downloadRate"}

\* the snapshot with the fields of missing removed
Without(snapshot, missing) ==
    Obj([k \in (DOMAIN snapshot.v) \ missing |-> snapshot.v[k]])

\* clientData: nothing at all, or a snapshot with some deriver inputs missing
Snapshots ==
    {Undef} \cup
    {Without(BaseSnapshot, m) :
        m \in {x \in SUBSET DeriverFields : Cardinality(x) <= MaxMissing}}

\* the key names a caller requests: fields, an unknown name, and names that
\* are no field but capitalise to a method of the class
RequestKeys == {"status", "foo", "peerCount"}

RECURSIVE SeqsUpTo(_, _)
SeqsUpTo(S, n) ==
    IF n = 0 THEN {<<>>}
    ELSE LET shorter == SeqsUpTo(S, n - 1)
         IN  shorter \cup {Append(q, x) : q \in shorter, x \in S}

\* opts.requestedData: a list of names, or a string (the empty one is falsy)
RequestedValues ==
    {Arr(l) : l \in SeqsUpTo(RequestKeys, MaxRequested)}
    \cup {Str(<<>>), Str(<<"s", "t", "a", "t", "u", "s">>)}

\* opts: omitted, {}, {currentTime}, or {requestedData}
Options ==
    {Undef, Obj(<<>>)}
    \cup {Obj([currentTime |-> Num(t, 1)]) : t \in 1..MaxTime}
    \cup {Obj([requestedData |-> r]) : r \in RequestedValues}

\* the calls of the model: every option on the well-formed snapshot, and
\* every snapshot with opts omitted, empty or timed
Calls ==
    {[cd |-> BaseSnapshot, opts |-> o] : o \in Options}
    \cup {[cd |-> c, opts |-> o] :
            c \in Snapshots,
            o \in {Undef, Obj(<<>>), Obj([requestedData |-> Arr(<<>>)]),
                   Obj([currentTime |-> Num(1, 1)])}}

\* BuildFields on every call of the model, computed once
BuildTable == [c \in Calls |-> BuildFields(c.cd, c.opts)]

Built(clientData, opts) == BuildTable[[cd |-> clientData, opts |-> opts]]

--------------------------------------------------------------------------
(* The object: constructor, updateData and the notifier call in between *)

\* opts.currentTime || Date.now()
Stamp(opts) ==
    IF Truthy(Get(opts, "currentTime")) THEN Get(opts, "currentTime") ELSE Num(now, 1)

\* the object's variables before any call
NoObject ==
    /\ exists = FALSE
    /\ torrentData = Undef
    /\ lastUpdated = Undef
    /\ pc = "idle"
    /\ op = "none"
    /\ args = [cd |-> Undef, opts |-> Undef]
    /\ pending = Undef
    /\ outcome = "none"
    /\ warned = FALSE
    /\ notifierArgs = <<>>
    /\ recordStamp = Undef
    /\ now = 1

Init ==
    /\ NoObject
    /\ fnIn = Undef
    /\ fnOut = Undef

\* line 53: opts = opts || {}
OptsOrEmpty(opts) == IF Truthy(opts) THEN opts ELSE Obj(<<>>)

\* lines 81-108 run from a call whose opts is an object: the fields are built
\* and the notifier is entered, or an exception leaves the call
EnterGetClientData(clientData, opts) ==
    LET built == Built(clientData, opts)
    IN  /\ warned' = Warns(opts)
        /\ IF built = Throw
           THEN /\ pc' = "idle"
                /\ outcome' = "throw"
                /\ pending' = Undef
                /\ notifierArgs' = <<>>
           ELSE /\ pc' = "notify"
                /\ outcome' = "running"
                /\ pending' = built
                /\ notifierArgs' = <<data, built>>

\* new Torrent(clientData, opts), up to the notifier call. A constructor
\* that raises yields no object.
Constructor(clientData, opts) ==
    /\ pc = "idle"
    /\ op' = "ctor"
    /\ args' = [cd |-> clientData, opts |-> opts]
    /\ recordStamp' = Undef
    /\ torrentData' = Undef
    /\ IF ~Truthy(clientData)
       THEN /\ exists' = TRUE
            /\ lastUpdated' = Undef
            /\ pc' = "idle"
            /\ outcome' = "ok"
            /\ pending' = Undef
            /\ warned' = FALSE
            /\ notifierArgs' = <<>>
       ELSE LET o == OptsOrEmpty(opts)
                built == Built(clientData, o)
            IN  /\ exists' = FALSE
                /\ lastUpdated' = IF built = Throw THEN Undef ELSE Stamp(o)
                /\ warned' = Warns(o)
                /\ IF built = Throw
                   THEN /\ pc' = "idle"
                        /\ outcome' = "throw"
                        /\ pending' = Undef
                        /\ notifierArgs' = <<>>
                   ELSE /\ pc' = "notify"
                        /\ outcome' = "running"
                        /\ pending' = built
                        /\ notifierArgs' = <<Obj(<<>>), built>>
    /\ UNCHANGED <<now, fnIn, fnOut>>

\* updateData(clientData, opts) on the object, up to the notifier call.
\* opts.currentTime raises when opts is undefined, before anything is written.
UpdateData(clientData, opts) ==
    /\ pc = "idle"
    /\ exists
    /\ op' = "update"
    /\ args' = [cd |-> clientData, opts |-> opts]
    /\ IF opts = Undef
       THEN /\ outcome' = "throw"
            /\ warned' = FALSE
            /\ notifierArgs' = <<>>
            /\ UNCHANGED <<lastUpdated, pc, pending>>
       ELSE /\ lastUpdated' = Stamp(opts)
            /\ EnterGetClientData(clientData, opts)
    /\ UNCHANGED <<exists, torrentData, recordStamp, now, fnIn, fnOut>>

\* TorrentNotificationService.compareNewTorrentData returns: line 110, then
\* the assignment to this.torrentData (line 55 or 265)
NotifierReturns ==
    /\ pc = "notify"
    /\ pc' = "idle"
    /\ torrentData' = pending
    /\ recordStamp' = lastUpdated
    /\ exists' = TRUE
    /\ outcome' = "ok"
    /\ pending' = Undef
    /\ UNCHANGED <<lastUpdated, op, args, warned, notifierArgs, now, fnIn, fnOut>>

\* the notifier raises: nothing catches it, the call is left at line 108
NotifierThrows ==
    /\ pc = "notify"
    /\ pc' = "idle"
    /\ outcome' = "throw"
    /\ pending' = Undef
    /\ IF op = "ctor"
       THEN lastUpdated' = Undef
       ELSE UNCHANGED lastUpdated
    /\ UNCHANGED <<exists, torrentData, recordStamp, op, args, warned, notifierArgs,
                   now, fnIn, fnOut>>

\* time passes between calls
Tick ==
    /\ pc = "idle"
    /\ now < MaxTime
    /\ now' = now + 1
    /\ UNCHANGED <<exists, torrentData, lastUpdated, pc, op, args, pending, outcome,
                   warned, notifierArgs, recordStamp, fnIn, fnOut>>

Next ==
    \/ \E c \in Calls : Constructor(c.cd, c.opts)
    \/ \E c \in Calls : UpdateData(c.cd, c.opts)
    \/ NotifierReturns
    \/ NotifierThrows
    \/ Tick

Spec == Init /\ [][Next]_vars

--------------------------------------------------------------------------
(* Claims about the object *)

\* the running / last call raised while its fields were being built
FieldsThrew == outcome = "throw" /\ notifierArgs = <<>>

\* the running / last call raised inside the notifier
NotifierThrew == outcome = "throw" /\ notifierArgs # <<>>

\* opts selects the default field list
DefaultListOpts(opts) == opts = Undef \/ Get(opts, "requestedData") = Undef

\* C2: building a record over the default field list from a snapshot in
\* which some of the fields the derivers read are missing runs to completion:
\* the constructor never raises while the fields are derived.
C2_ConstructionNeverAborts ==
    (op = "ctor" /\ args.cd # Undef /\ DefaultListOpts(args.opts)) => ~FieldsThrew

\* C3: a failure of the notifier does not propagate: every call that reached
\* the notifier returns, with the newly derived record as the current record.
C3_NotifierFailureContained ==
    (pc = "idle" /\ notifierArgs # <<>>) =>
        (outcome = "ok" /\ torrentData = notifierArgs[2])

\* C4: the notifier is handed (copy of the current record, new record) before
\* the new record is committed and before lastUpdated is stamped: while the
\* notifier runs, and after an updateData that did not complete, lastUpdated
\* and the current record both belong to the previous build.
C4_StampAfterNotifier ==
    (exists /\ op = "update" /\ (pc = "notify" \/ outcome = "throw")) =>
        /\ pc = "notify" => notifierArgs = <<data, pending>>
        /\ lastUpdated = recordStamp

\* the field list the claim resolves requestedData to
ClaimedKeys(opts) ==
    LET requestedData == Get(opts, "requestedData")
    IN  IF requestedData.t = "array" THEN requestedData.v ELSE DEFAULT_DATA_KEYS

\* C6: for every value of requestedData on a well-formed snapshot a record is
\* produced whose key set is the resolved field list (the requested list
\* verbatim, the default list when absent or not a list), and a warning is
\* emitted exactly when requestedData is present but not a list.
C6_KeysAreResolvedList ==
    (op # "none" /\ args.cd = BaseSnapshot /\ args.opts # Undef) =>
        LET keys   == ClaimedKeys(args.opts)
            record == IF pc = "notify" THEN pending ELSE torrentData
            requestedData == Get(args.opts, "requestedData")
        IN  /\ ~FieldsThrew
            /\ (pc = "notify" \/ outcome = "ok") =>
                   DOMAIN record.v = {keys[i] : i \in 1..Len(keys)}
            /\ warned = (requestedData # Undef /\ requestedData.t # "array")

\* new Torrent(clientData, opts) when the notifier returns: the record it
\* leaves as current, or Throw
ConstructorResult(clientData, opts) ==
    IF ~Truthy(clientData) THEN Undef
    ELSE Built(clientData, OptsOrEmpty(opts))

\* C7: updateData(clientData, opts) has the outcome of new Torrent(clientData,
\* opts) for every snapshot and options value, omitted options included: both
\* complete or both raise, and they leave the same current record.
C7_UpdateIsConstruction ==
    (op = "update" /\ pc = "idle" /\ ~NotifierThrew) =>
        LET built == ConstructorResult(args.cd, args.opts)
        IN  /\ (outcome = "throw") = (built = Throw)
            /\ outcome = "ok" => torrentData = built

\* C10: on every object, between calls, status, tags and trackers return a
\* list and basePath and data return without raising.
C10_AccessorsNeverRaise ==
    (exists /\ pc = "idle") =>
        /\ status.t = "array"
        /\ tags.t = "array"
        /\ trackers.t = "array"
        /\ basePath # Throw
        /\ data # Throw

--------------------------------------------------------------------------
(* The derivers, each applied to the inputs of a bounded set *)

\* fnOut before the deriver has been called
NotCalled == [t |-> "pending", v |-> <<>>]

\* an object holding the fields of f that are not undefined
ObjOf(f) == Obj([k \in {x \in DOMAIN f : f[x] # Undef} |-> f[k]])

(* getStatus *)

FlagValues == {Zero, One, Str(<<"2">>), Undef}

RateValues == {Zero, Str(<<"5">>), Undef}

MessageValues == {Str(<<>>), Str(<<"x">>)}

StatusInputs ==
    {ObjOf([isHashChecking |-> hc, isComplete |-> c, isOpen |-> o, state |-> s,
            uploadRate |-> u, downloadRate |-> d, message |-> m]) :
        hc \in FlagValues, c \in FlagValues, o \in FlagValues, s \in FlagValues,
        u \in RateValues, d \in RateValues, m \in MessageValues}

InitStatus == NoObject /\ fnIn \in StatusInputs /\ fnOut = NotCalled

CallGetStatus ==
    /\ fnOut = NotCalled
    /\ fnOut' = getStatus(fnIn)
    /\ UNCHANGED <<fnIn, objVars>>

NextStatus == CallGetStatus

SpecStatus == InitStatus /\ [][NextStatus]_vars

\* the primary tags the claim lists for a snapshot
ClaimedPrimary(cd) ==
    LET hc == Get(cd, "isHashChecking")
        c  == Get(cd, "isComplete")
        o  == Get(cd, "isOpen")
        s  == Get(cd, "state")
    IN  CASE hc = One -> <<torrentStatusMap.checking>>
          [] hc # One /\ c = One /\ o = One /\ s = One ->
                <<torrentStatusMap.complete, torrentStatusMap.seeding>>
          [] hc # One /\ c = One /\ o = One /\ s = Zero -> <<torrentStatusMap.paused>>
          [] hc # One /\ c = One /\ o = Zero ->
                <<torrentStatusMap.stopped, torrentStatusMap.complete>>
          [] hc # One /\ c = Zero /\ o = One /\ s = One -> <<torrentStatusMap.downloading>>
          [] hc # One /\ c = Zero /\ o = One /\ s = Zero -> <<torrentStatusMap.paused>>
          [] hc # One /\ c = Zero /\ o = Zero -> <<torrentStatusMap.stopped>>
          [] OTHER -> <<>>

ActivityTags == {torrentStatusMap.active, torrentStatusMap.inactive}

\* C1: getStatus returns the primary tags of the first matching case, then
\* error iff message is non-empty, then as its last element exactly one of
\* inactive (both rates are '0') and active (otherwise).
C1_StatusList ==
    fnOut # NotCalled =>
        LET primary == ClaimedPrimary(fnIn)
            n       == Len(fnOut.v)
            hasErr  == Get(fnIn, "message") # Str(<<>>)
            idle    == Get(fnIn, "uploadRate") = Zero /\ Get(fnIn, "downloadRate") = Zero
        IN  /\ fnOut.t = "array"
            /\ n = Len(primary) + (IF hasErr THEN 1 ELSE 0) + 1
            /\ SubSeq(fnOut.v, 1, Len(primary)) = primary
            /\ hasErr => fnOut.v[n - 1] = torrentStatusMap.error
            /\ \A i \in 1..(n - 1) : fnOut.v[i] \notin ActivityTags
            /\ (\E i \in 1..n : fnOut.v[i] = torrentStatusMap.error) <=> hasErr
            /\ fnOut.v[n] = IF idle THEN torrentStatusMap.inactive
                            ELSE torrentStatusMap.active

\* a complete, closed, idle torrent with a message has been classified
C1_Witness ==
    /\ Get(fnIn, "isComplete") = One
    /\ Get(fnIn, "isOpen") = Zero
    /\ fnOut = Arr(<<torrentStatusMap.stopped, torrentStatusMap.complete,
                     torrentStatusMap.error, torrentStatusMap.inactive>>)

(* getPeerCount *)

\* peer count strings have at most this many characters
MaxPeerLen == 5

PeerChars == {"1", "@", "!"}

PeerInputs == {Str(q) : q \in SeqsUpTo(PeerChars, MaxPeerLen)}

InitPeerCount == NoObject /\ fnIn \in PeerInputs /\ fnOut = NotCalled

CallGetPeerCount ==
    /\ fnOut = NotCalled
    /\ fnOut' = getPeerCount(fnIn)
    /\ UNCHANGED <<fnIn, objVars>>

NextPeerCount == CallGetPeerCount

SpecPeerCount == InitPeerCount /\ [][NextPeerCount]_vars

HasDelimiter(q) == \E i \in 1..Len(q) : MatchAt(q, Delimiter, i)

\* C5: getPeerCount returns the substring before the first '@!@', and the
\* whole input string when the input holds no '@!@'; it does not raise.
C5_PeerCountPrefix ==
    fnOut # NotCalled =>
        /\ fnOut # Throw
        /\ HasDelimiter(fnIn.v) =>
               /\ ~HasDelimiter(fnOut.v \o <<"@", "!">>)
               /\ MatchAt(fnIn.v, fnOut.v \o Delimiter, 1)
        /\ ~HasDelimiter(fnIn.v) => fnOut = fnIn

(* getTrackers *)

\* hostnames have at most this many labels
MaxLabels == 4

\* a trackers field holds at most this many entries
MaxTrackers == 2

TrackerLabels == {<<"a", "b", "c">>, <<"d", "e", "f", "g">>}

\* the hostnames of k labels: every choice of the rightmost 3 labels, the
\* labels left of them all alike
RECURSIVE Repeat(_, _)
Repeat(x, n) == IF n = 0 THEN <<>> ELSE <<x>> \o Repeat(x, n - 1)

Hostnames(k) ==
    IF k <= 3 THEN SeqsUpTo(TrackerLabels, k) \ SeqsUpTo(TrackerLabels, k - 1)
    ELSE {Repeat(l, k - 3) \o q :
            l \in TrackerLabels,
            q \in SeqsUpTo(TrackerLabels, 3) \ SeqsUpTo(TrackerLabels, 2)}

\* an entry is the list of labels of its hostname, or <<>>: no URL at all
TrackerEntries == {<<>>} \cup UNION {Hostnames(k) : k \in 1..MaxLabels}

EntryText(labels) ==
    IF labels = <<>> THEN <<"x">>
    ELSE <<"p", ":", "/", "/">> \o Join(labels, <<".">>) \o <<"/", "x">>

TrackersText(entries) ==
    Join([i \in 1..Len(entries) |-> EntryText(entries[i])], Delimiter)

TrackerInputs ==
    {[entries |-> e, raw |-> Obj([trackers |-> Str(TrackersText(e))])] :
        e \in SeqsUpTo(TrackerEntries, MaxTrackers)}

InitTrackers == NoObject /\ fnIn \in TrackerInputs /\ fnOut = NotCalled

CallGetTrackers ==
    /\ fnOut = NotCalled
    /\ fnOut' = getTrackers(fnIn.raw)
    /\ UNCHANGED <<fnIn, objVars>>

NextTrackers == CallGetTrackers

SpecTrackers == InitTrackers /\ [][NextTrackers]_vars

\* the labels the claim keeps of a hostname
ClaimedLabels(labels) ==
    LET n == Len(labels)
    IN  IF n <= 2 THEN labels
        ELSE IF Len(labels[n - 1]) <= 3 THEN <<labels[n - 2], labels[n - 1], labels[n]>>
        ELSE <<labels[n - 1], labels[n]>>

Matched(entries) == SelectSeq(entries, LAMBDA e : e # <<>>)

\* C8: getTrackers returns one domain per entry with a hostname, in input
\* order, duplicates kept: the rightmost 3 labels of a hostname of more than
\* 2 labels whose second-to-last label has at most 3 characters, the
\* rightmost 2 labels of any other, and a hostname of 1 or 2 labels whole.
C8_TrackerDomains ==
    fnOut # NotCalled =>
        LET hosts == Matched(fnIn.entries)
        IN  /\ fnOut.t = "array"
            /\ Len(fnOut.v) = Len(hosts)
            /\ \A i \in 1..Len(hosts) :
                   Split(fnOut.v[i].v, <<".">>) = ClaimedLabels(hosts[i])

\* two 4-label hostnames were reduced, one to 3 labels and one to 2
C8_Witness ==
    /\ fnOut # NotCalled
    /\ Len(fnIn.entries) = 2
    /\ Len(fnIn.entries[1]) = 4
    /\ Len(fnIn.entries[2]) = 4
    /\ Len(fnOut.v) = 2
    /\ Len(Split(fnOut.v[1].v, <<".">>)) = 3
    /\ Len(Split(fnOut.v[2].v, <<".">>)) = 2

(* getPercentComplete *)

\* bytesDone and sizeBytes range over 0..MaxBytes
MaxBytes == 100

RECURSIVE ToDigits(_)
ToDigits(n) ==
    IF n < 10 THEN <<Digits[n + 1]>> ELSE ToDigits(n \div 10) \o <<Digits[(n % 10) + 1]>>

\* a count as the client reports it; -1 stands for a missing field
CountField(n) == IF n = -1 THEN Undef ELSE Str(ToDigits(n))

PercentInputs ==
    {[bytesDone |-> b, sizeBytes |-> z,
      raw |-> ObjOf([bytesDone |-> CountField(b), sizeBytes |-> CountField(z)])] :
        b \in -1..MaxBytes, z \in -1..MaxBytes}

InitPercent == NoObject /\ fnIn \in PercentInputs /\ fnOut = NotCalled

CallGetPercentComplete ==
    /\ fnOut = NotCalled
    /\ fnOut' = getPercentComplete(fnIn.raw)
    /\ UNCHANGED <<fnIn, objVars>>

NextPercent == CallGetPercentComplete

SpecPercent == InitPercent /\ [][NextPercent]_vars

\* the result is the number k
IsInt(x, k) == x.t = "number" /\ x.v[2] > 0 /\ x.v[1] = k * x.v[2]

\* n/scale is p/z rounded to a multiple of 1/scale, the larger one on a tie
RoundedTo(n, scale, p, z) ==
    /\ 2 * n * z - z <= 2 * scale * p
    /\ 2 * scale * p < 2 * n * z + z

\* C9: with p = bytesDone / sizeBytes * 100, getPercentComplete returns p
\* rounded to 2 decimal places when 0 < p < 10, to 1 decimal place when
\* 10 < p < 100, and p itself otherwise (a zero denominator included);
\* (0,100) -> 0, (5,100) -> 5, (50,100) -> 50, (100,100) -> 100.
C9_PercentTiers ==
    fnOut # NotCalled =>
        LET b == fnIn.bytesDone
            z == fnIn.sizeBytes
            p == 100 * b
            n == fnOut.v[1]
            d == fnOut.v[2]
        IN  /\ fnOut.t = "number"
            /\ (b = -1 \/ z = -1) => fnOut = NaN
            /\ (b = 0 /\ z = 0) => fnOut = NaN
            /\ (b > 0 /\ z = 0) => fnOut = Infinity
            /\ (b >= 0 /\ z > 0 /\ 0 < p /\ p < 10 * z) =>
                   d = 100 /\ RoundedTo(n, 100, p, z)
            /\ (b >= 0 /\ z > 0 /\ 10 * z < p /\ p < 100 * z) =>
                   d = 10 /\ RoundedTo(n, 10, p, z)
            /\ (b >= 0 /\ z > 0 /\ (p = 0 \/ p = 10 * z \/ p >= 100 * z)) =>
                   d > 0 /\ n * z = p * d
            /\ (b = 0 /\ z = 100) => IsInt(fnOut, 0)
            /\ (b = 5 /\ z = 100) => IsInt(fnOut, 5)
            /\ (b = 50 /\ z = 100) => IsInt(fnOut, 50)
            /\ (b = 100 /\ z = 100) => IsInt(fnOut, 100)

\* 1 of 30 bytes is reported as 3.33 percent
C9_Witness ==
    /\ fnIn.bytesDone = 1
    /\ fnIn.sizeBytes = 30
    /\ fnOut = Num(333, 100)

====
